---- MODULE Spec2Model ----
(***************************************************************************)
(* daily-metric-logger (src/main.rs): one run scans daily_metrics.csv,     *)
(* asks the prompts and appends one LogEntry row.  The model keeps the     *)
(* file as a sequence of CSV records (each a sequence of cells), the clock *)
(* as a slot counter, and one run's locals of main.                        *)
(***************************************************************************)
EXTENDS Integers, Sequences, FiniteSets, TLC

\* ------------------------------------------------------------------ bounds
MaxTime == 3         \* last clock slot the model lets the clock reach
SlotsPerDay == 2     \* clock slots in one UTC calendar day
MaxEntries == 3      \* no run starts once the file holds this many entries
MaxHist == 2         \* records after the header in a hand-made history

\* A program constant (main.rs:247).
WORKOUT_COLUMN_INDEX == 10

VARIABLES
    now,            \* Utc::now(), in slots
    fileExists,     \* Path::new(DATA_FILE).exists()
    fileLines,      \* the records of DATA_FILE, in file order
    pc,             \* where main is
    csv_info,       \* main's csv_info
    today,          \* main's today (line 65)
    is_first_entry_today,
    day_count,
    sleep_hours,    \* Option<f32>
    sleep_quality,  \* Option<f32>
    ratings,        \* the ratings answered so far (sleepiness .. intelligence)
    workout_today,
    workoutPrompted,\* whether the Confirm prompt was shown in this run
    entry,          \* the LogEntry of line 176, once built
    outcome,        \* how the run ended: "none" while running
    abortedAt,      \* the prompt the user aborted, "none" otherwise
    appendCalled,   \* whether this run called append_to_csv
    before          \* the file as it was when the run started

vars == << now, fileExists, fileLines, pc, csv_info, today,
           is_first_entry_today, day_count, sleep_hours, sleep_quality,
           ratings, workout_today, workoutPrompted, entry, outcome,
           abortedAt, appendCalled, before >>

\* ------------------------------------------------------------- cells, text
\* A CSV cell.  k = "str": the text s.  k = "num": the decimal text of n.
\* k = "rfc3339": a date-time whose local time is n slots at UTC offset o.
StrCell(s) == [k |-> "str", s |-> s, n |-> 0, o |-> 0]
NumCell(n) == [k |-> "num", s |-> "", n |-> n, o |-> 0]
TsCell(local, off) == [k |-> "rfc3339", s |-> "", n |-> local, o |-> off]

None == [some |-> FALSE, v |-> 0]
Some(x) == [some |-> TRUE, v |-> x]

\* str::trim on the texts the model uses
Trim(s) ==
    CASE s = " true " -> "true"
      [] s = " timestamp " -> "timestamp"
      [] OTHER -> s

\* ASCII lower-casing on the texts the model uses
AsciiLower(s) ==
    CASE s = "TRUE" -> "true"
      [] s = "True" -> "true"
      [] s = "FALSE" -> "false"
      [] OTHER -> s

EqIgnoreAsciiCase(a, b) == AsciiLower(a) = AsciiLower(b)

\* DateTime<Utc>::to_rfc3339: the UTC instant, written with offset +00:00
ToRfc3339(t) == TsCell(t, 0)

\* DateTime::parse_from_rfc3339(..).map(|dt| dt.with_timezone(&Utc))
ParseFromRfc3339(cell) ==
    IF cell.k = "rfc3339"
    THEN [ok |-> TRUE, utc |-> cell.n - cell.o]
    ELSE [ok |-> FALSE, utc |-> 0]

\* date_naive of a UTC instant
DateNaive(t) == t \div SlotsPerDay

\* serde/csv rendering of the field types of LogEntry
BoolCell(b) == StrCell(IF b THEN "true" ELSE "false")
OptCell(x) == IF x.some THEN NumCell(x.v) ELSE StrCell("")

\* The header record of append_to_csv; serde derives the same names from
\* the fields of LogEntry.
Header ==
    << StrCell("timestamp"), StrCell("day_count"), StrCell("sleep_hours"),
       StrCell("sleep_quality"), StrCell("sleepiness"), StrCell("zonkedness"),
       StrCell("energy"), StrCell("strength"), StrCell("focus"),
       StrCell("intelligence"), StrCell("workout_today"), StrCell("remarks") >>

TIMESTAMP_HEADER == "timestamp"

\* The record wtr.serialize writes for a LogEntry, in field order.
SerializeEntry(e) ==
    << e.timestamp, NumCell(e.day_count), OptCell(e.sleep_hours),
       OptCell(e.sleep_quality) >>
    \o [i \in 1..Len(e.ratings) |-> NumCell(e.ratings[i])]
    \o << BoolCell(e.workout_today), StrCell(e.remarks) >>

\* StringRecord::get(i), 0-based
Get(record, i) == IF i + 1 <= Len(record) THEN Some(record[i + 1]) ELSE None

\* ------------------------------------------------------------ read_csv_info
EmptyInfo ==
    [first_entry_date |-> None, last_entry_date |-> None,
     workout_logged_today |-> FALSE, ok |-> TRUE]

\* A record whose timestamp fails to parse, made fatal: the
\* AppError::DateParseError the closure of lines 269-276 leaves commented out.
ParseErrorFatal(acc) == [acc EXCEPT !.ok = FALSE]

\* The map_err closure of lines 269-276: a warning, and the record is left
\* out of the aggregates.
OnParseError(acc) == acc

\* One iteration of the for loop over rdr.records(): acc is (first_date,
\* last_date, workout_today_logged); width is the field count the reader
\* fixed from its first record.
ScanRecord(acc, width, record, scanToday) ==
    IF Len(record) # width
    THEN acc                                   \* Err(e): corrupted, continue
    ELSE LET c0 == Get(record, 0) IN
    IF ~c0.some
    THEN acc                                   \* missing timestamp column
    ELSE LET ts_str == c0.v IN
    IF ts_str.k = "str" /\ Trim(ts_str.s) = TIMESTAMP_HEADER
    THEN acc                                   \* header read as data
    ELSE LET dt == ParseFromRfc3339(ts_str) IN
    IF ~dt.ok
    THEN OnParseError(acc)                     \* warning, record skipped
    ELSE LET current_date == DateNaive(dt.utc)
             w == Get(record, WORKOUT_COLUMN_INDEX)
         IN  [first_entry_date |->
                 IF ~acc.first_entry_date.some
                    \/ current_date < acc.first_entry_date.v
                 THEN Some(current_date) ELSE acc.first_entry_date,
              last_entry_date |-> Some(current_date),
              workout_logged_today |->
                 IF current_date = scanToday /\ w.some /\ w.v.k = "str"
                    /\ EqIgnoreAsciiCase(Trim(w.v.s), "true")
                 THEN TRUE ELSE acc.workout_logged_today,
              ok |-> acc.ok]

RECURSIVE ScanRecords(_, _, _, _, _)
ScanRecords(acc, width, lines, i, scanToday) ==
    IF i > Len(lines) THEN acc
    ELSE ScanRecords(ScanRecord(acc, width, lines[i], scanToday),
                     width, lines, i + 1, scanToday)

\* read_csv_info for a file that opens: has_headers(true) takes the first
\* record as the header, whatever it holds, and the records after it must
\* have its field count.
ReadCsvInfo(exists, lines, scanToday) ==
    IF exists /\ Len(lines) > 0
    THEN ScanRecords(EmptyInfo, Len(lines[1]), lines, 2, scanToday)
    ELSE EmptyInfo

\* ------------------------------------------------------------ append_to_csv
\* The file opened for writing without append: what it held is gone.
OpenTruncate(lines) == << >>

\* OpenOptions::new().create(true).append(true): what the file holds is
\* kept and every write lands after it.
OpenAppend(lines) == lines

\* wtr.write_record: the record goes out as given.
WriteRecord(buf, record) == Append(buf, record)

\* wtr.serialize on a writer built with has_headers(has_headers): a writer
\* that has headers on writes the field names of the struct before the first
\* record it serializes; write_record does not count as that first record.
Serialize(buf, has_headers, e) ==
    Append(IF has_headers THEN Append(buf, Header) ELSE buf,
           SerializeEntry(e))

\* What one successful append_to_csv adds to the file.
WriterOutput(file_exists, e) ==
    Serialize(IF ~file_exists THEN WriteRecord(<< >>, Header) ELSE << >>,
              ~file_exists, e)

\* ------------------------------------------------------------------ prompts
\* What the user may type at the prompts.
SleepHoursInputs == { NumCell(-1), NumCell(8), NumCell(13), StrCell("abc") }
SleepQualityInputs == { NumCell(0), NumCell(8), NumCell(11), StrCell("abc") }
RatingInputs == { NumCell(-1), NumCell(0), NumCell(5), NumCell(11),
                  NumCell(256), StrCell("abc") }
RemarkInputs == { "" }

\* input.parse::<f32>() and input.parse::<u8>() succeed
ParsesF32(inp) == inp.k = "num"
ParsesU8(inp) == inp.k = "num" /\ inp.n >= 0 /\ inp.n <= 255

\* the validate_with closures
SleepHoursValid(inp) == ParsesF32(inp) /\ inp.n <= 12
SleepQualityValid(inp) == ParsesF32(inp) /\ inp.n >= 1 /\ inp.n <= 10
RatingValid(inp) == ParsesU8(inp) /\ inp.n >= 1 /\ inp.n <= 10

\* An aborted prompt reported as the I/O error dialoguer returns.
CancelAsIoError == "IoError"

\* map_err(|_| AppError::DialogCancelled)
CancelOutcome == "DialogCancelled"

NoEntry ==
    [timestamp |-> StrCell(""), day_count |-> 0, sleep_hours |-> None,
     sleep_quality |-> None, ratings |-> << >>, workout_today |-> FALSE,
     remarks |-> ""]

PromptPcs == { "sleep_hours", "sleep_quality", "ratings", "workout", "remarks" }

\* Entries (records that are not the header literal) among lines.
IsHeaderLiteral(record) ==
    Len(record) > 0 /\ record[1].k = "str" /\ record[1].s = TIMESTAMP_HEADER
EntryIndices(lines) == { i \in 1..Len(lines) : ~IsHeaderLiteral(lines[i]) }

\* ------------------------------------------------------------------ actions
Init ==
    /\ now = 0
    /\ fileExists \in BOOLEAN       \* no file yet, or an empty one
    /\ fileLines = << >>
    /\ pc = "start"
    /\ csv_info = EmptyInfo
    /\ today = 0
    /\ is_first_entry_today = FALSE
    /\ day_count = 0
    /\ sleep_hours = None
    /\ sleep_quality = None
    /\ ratings = << >>
    /\ workout_today = FALSE
    /\ workoutPrompted = FALSE
    /\ entry = NoEntry
    /\ outcome = "none"
    /\ abortedAt = "none"
    /\ appendCalled = FALSE
    /\ before = [exists |-> fileExists, lines |-> fileLines]

\* The clock moves on, whatever the program is doing.
Tick ==
    /\ now < MaxTime
    /\ now' = now + 1
    /\ UNCHANGED << fileExists, fileLines, pc, csv_info, today,
                    is_first_entry_today, day_count, sleep_hours,
                    sleep_quality, ratings, workout_today, workoutPrompted,
                    entry, outcome, abortedAt, appendCalled, before >>

\* A fresh process: the locals of main start over.
FreshLocals ==
    /\ today' = 0
    /\ is_first_entry_today' = FALSE
    /\ day_count' = 0
    /\ sleep_hours' = None
    /\ sleep_quality' = None
    /\ ratings' = << >>
    /\ workout_today' = FALSE
    /\ workoutPrompted' = FALSE
    /\ entry' = NoEntry
    /\ abortedAt' = "none"
    /\ appendCalled' = FALSE
    /\ before' = [exists |-> fileExists, lines |-> fileLines]

\* main line 64: read_csv_info(DATA_FILE) returns Ok.
ReadCsvInfoCall ==
    /\ pc \in { "start", "exit" }
    /\ csv_info' = ReadCsvInfo(fileExists, fileLines, DateNaive(now))
    /\ pc' = "today"
    /\ outcome' = "none"
    /\ FreshLocals
    /\ UNCHANGED << now, fileExists, fileLines >>

\* A new run, while the file has room for its entry.
StartRun ==
    /\ Cardinality(EntryIndices(fileLines)) < MaxEntries
    /\ ReadCsvInfoCall

\* main line 64: File::open fails inside read_csv_info (line 239).
ScanOpenFails ==
    /\ pc \in { "start", "exit" }
    /\ Cardinality(EntryIndices(fileLines)) < MaxEntries
    /\ fileExists
    /\ csv_info' = EmptyInfo
    /\ pc' = "exit"
    /\ outcome' = "IoError"
    /\ FreshLocals
    /\ UNCHANGED << now, fileExists, fileLines >>

\* main lines 65-90 (and 134 on a follow-up log).
ReadToday ==
    /\ pc = "today"
    /\ LET t == DateNaive(now)
           first == IF csv_info.last_entry_date.some
                    THEN csv_info.last_entry_date.v # t
                    ELSE TRUE
           first_ever_date == IF csv_info.first_entry_date.some
                              THEN csv_info.first_entry_date.v
                              ELSE t
       IN  /\ today' = t
           /\ is_first_entry_today' = first
           /\ day_count' = (t - first_ever_date) + 1
           /\ pc' = IF first THEN "sleep_hours" ELSE "ratings"
    /\ UNCHANGED << now, fileExists, fileLines, csv_info, sleep_hours,
                    sleep_quality, ratings, workout_today, workoutPrompted,
                    entry, outcome, abortedAt, appendCalled, before >>

\* main lines 92-112: an answer the validator refuses leaves the prompt up.
AskSleepHours ==
    /\ pc = "sleep_hours"
    /\ \E inp \in SleepHoursInputs :
         IF SleepHoursValid(inp)
         THEN /\ sleep_hours' = Some(inp.n)
              /\ pc' = "sleep_quality"
         ELSE UNCHANGED << sleep_hours, pc >>
    /\ UNCHANGED << now, fileExists, fileLines, csv_info, today,
                    is_first_entry_today, day_count, sleep_quality, ratings,
                    workout_today, workoutPrompted, entry, outcome, abortedAt,
                    appendCalled, before >>

\* main lines 113-132
AskSleepQuality ==
    /\ pc = "sleep_quality"
    /\ \E inp \in SleepQualityInputs :
         IF SleepQualityValid(inp)
         THEN /\ sleep_quality' = Some(inp.n)
              /\ pc' = "ratings"
         ELSE UNCHANGED << sleep_quality, pc >>
    /\ UNCHANGED << now, fileExists, fileLines, csv_info, today,
                    is_first_entry_today, day_count, sleep_hours, ratings,
                    workout_today, workoutPrompted, entry, outcome, abortedAt,
                    appendCalled, before >>

\* main lines 137-142, one ask_rating each; after the sixth, lines 144-165
\* up to the next prompt: the workout prompt is skipped, and the answer
\* forced, when a workout was already logged today.
AskRating ==
    /\ pc = "ratings"
    /\ \E inp \in RatingInputs :
         IF RatingValid(inp)
         THEN /\ ratings' = Append(ratings, inp.n)
              /\ IF Len(ratings) + 1 < 6
                 THEN UNCHANGED << pc, workout_today >>
                 ELSE IF ~csv_info.workout_logged_today
                      THEN pc' = "workout" /\ UNCHANGED workout_today
                      ELSE pc' = "remarks" /\ workout_today' = TRUE
         ELSE UNCHANGED << ratings, pc, workout_today >>
    /\ UNCHANGED << now, fileExists, fileLines, csv_info, today,
                    is_first_entry_today, day_count, sleep_hours,
                    sleep_quality, workoutPrompted, entry, outcome, abortedAt,
                    appendCalled, before >>

\* main lines 146-157
AskWorkout ==
    /\ pc = "workout"
    /\ \E answer \in BOOLEAN : workout_today' = answer
    /\ workoutPrompted' = TRUE
    /\ pc' = "remarks"
    /\ UNCHANGED << now, fileExists, fileLines, csv_info, today,
                    is_first_entry_today, day_count, sleep_hours,
                    sleep_quality, ratings, entry, outcome, abortedAt,
                    appendCalled, before >>

\* main lines 167-189: the remarks, then the timestamp and the LogEntry.
AskRemarks ==
    /\ pc = "remarks"
    /\ \E text \in RemarkInputs :
         entry' = [timestamp |-> ToRfc3339(now), day_count |-> day_count,
                   sleep_hours |-> sleep_hours,
                   sleep_quality |-> sleep_quality, ratings |-> ratings,
                   workout_today |-> workout_today, remarks |-> text]
    /\ pc' = "append"
    /\ UNCHANGED << now, fileExists, fileLines, csv_info, today,
                    is_first_entry_today, day_count, sleep_hours,
                    sleep_quality, ratings, workout_today, workoutPrompted,
                    outcome, abortedAt, appendCalled, before >>

\* Any interact()/interact_text() returning Err: the user aborted the prompt.
Cancel ==
    /\ pc \in PromptPcs
    /\ abortedAt' = pc
    /\ outcome' = CancelOutcome
    /\ pc' = "exit"
    /\ UNCHANGED << now, fileExists, fileLines, csv_info, today,
                    is_first_entry_today, day_count, sleep_hours,
                    sleep_quality, ratings, workout_today, workoutPrompted,
                    entry, appendCalled, before >>

\* main line 192, append_to_csv returning Ok.
AppendOk ==
    /\ pc = "append"
    /\ appendCalled' = TRUE
    /\ LET file_exists == fileExists IN
         /\ fileExists' = TRUE
         /\ fileLines' = OpenAppend(fileLines) \o WriterOutput(file_exists, entry)
    /\ outcome' = "Ok"
    /\ pc' = "exit"
    /\ UNCHANGED << now, csv_info, today, is_first_entry_today, day_count,
                    sleep_hours, sleep_quality, ratings, workout_today,
                    workoutPrompted, entry, abortedAt, before >>

\* main line 192, append_to_csv failing at open (line 324): nothing created.
AppendOpenFails ==
    /\ pc = "append"
    /\ appendCalled' = TRUE
    /\ outcome' = "IoError"
    /\ pc' = "exit"
    /\ UNCHANGED << now, fileExists, fileLines, csv_info, today,
                    is_first_entry_today, day_count, sleep_hours,
                    sleep_quality, ratings, workout_today, workoutPrompted,
                    entry, abortedAt, before >>

\* main line 192, append_to_csv failing at flush (line 353): open has
\* created the file when it was absent, and no record reached it.
AppendFlushFails ==
    /\ pc = "append"
    /\ appendCalled' = TRUE
    /\ fileExists' = TRUE
    /\ fileLines' = OpenAppend(fileLines)
    /\ outcome' = "IoError"
    /\ pc' = "exit"
    /\ UNCHANGED << now, csv_info, today, is_first_entry_today, day_count,
                    sleep_hours, sleep_quality, ratings, workout_today,
                    workoutPrompted, entry, abortedAt, before >>

Next ==
    \/ Tick
    \/ StartRun
    \/ ScanOpenFails
    \/ ReadToday
    \/ AskSleepHours
    \/ AskSleepQuality
    \/ AskRating
    \/ AskWorkout
    \/ AskRemarks
    \/ Cancel
    \/ AppendOk
    \/ AppendOpenFails
    \/ AppendFlushFails

Spec == Init /\ [][Next]_vars

\* --------------------------------------------------- scanning a history
\* A well-formed history record: the twelve columns, with the given
\* timestamp and workout cells.
HistEntry(ts, w) ==
    << ts, NumCell(1), StrCell(""), StrCell("") >>
    \o [i \in 1..6 |-> NumCell(5)]
    \o << StrCell(w), StrCell("") >>

\* Records a history may hold after its header: entries (one written at a
\* UTC offset that puts it on the previous UTC day), an unparsable
\* timestamp, a repeated header, a record of the wrong width.
HistRows ==
    { HistEntry(TsCell(0, 0), "false"),
      HistEntry(TsCell(2, 0), "TRUE"),
      HistEntry(TsCell(2, 1), "true"),
      HistEntry(TsCell(3, 0), "false"),
      HistEntry(StrCell("not-a-date"), "true"),
      Header,
      << TsCell(3, 0), StrCell("true") >> }

Histories == UNION { [1..n -> HistRows] : n \in 0..MaxHist }

InitScan ==
    /\ now \in 0..MaxTime
    /\ fileExists = TRUE
    /\ fileLines \in { << Header >> \o h : h \in Histories }
    /\ pc = "start"
    /\ csv_info = EmptyInfo
    /\ today = 0
    /\ is_first_entry_today = FALSE
    /\ day_count = 0
    /\ sleep_hours = None
    /\ sleep_quality = None
    /\ ratings = << >>
    /\ workout_today = FALSE
    /\ workoutPrompted = FALSE
    /\ entry = NoEntry
    /\ outcome = "none"
    /\ abortedAt = "none"
    /\ appendCalled = FALSE
    /\ before = [exists |-> fileExists, lines |-> fileLines]

NextScan == ReadCsvInfoCall

SpecScan == InitScan /\ [][NextScan]_vars

\* ------------------------------------------------------ reading the file
RowDate(record) == DateNaive(ParseFromRfc3339(record[1]).utc)
RowDayCount(record) == record[2].n
RowHasSleepHours(record) == record[3].k = "num"
RowHasSleepQuality(record) == record[4].k = "num"
RowWorkout(record) == record[WORKOUT_COLUMN_INDEX + 1] = StrCell("true")

IsPrefix(a, b) == Len(a) <= Len(b) /\ SubSeq(b, 1, Len(a)) = a

\* What the run has added to the file so far.
Appended == SubSeq(fileLines, Len(before.lines) + 1, Len(fileLines))

\* The run has computed today, is_first_entry_today and day_count.
Computed == pc \in PromptPcs \cup { "append" } \/ appendCalled \/ abortedAt # "none"

Succeeded == pc = "exit" /\ outcome = "Ok"

Entries == EntryIndices(fileLines)

\* The last record of the file.
LastRow == fileLines[Len(fileLines)]

\* ------------------------------------------------------------------ claims

\* C1: whatever the run's outcome, the file as it was before the run is a
\* prefix of the file now; the run has added at most one entry, and exactly
\* one when it succeeded.
C1_AppendOnly ==
    /\ before.exists => fileExists
    /\ IsPrefix(before.lines, fileLines)
    /\ Cardinality(EntryIndices(Appended)) <= 1
    /\ Succeeded => Cardinality(EntryIndices(Appended)) = 1
    /\ (pc = "exit" /\ outcome # "Ok") => Appended = << >>

\* C1 witness: a run has succeeded on a file that already held records.
C1_Witness ==
    Succeeded /\ Len(before.lines) > 0 /\ Len(fileLines) > Len(before.lines)

\* C2: after a successful run the header is the first line and appears
\* nowhere else, and a run that started from no file or an empty file
\* leaves exactly the header and one entry.
C2_HeaderOnce ==
    Succeeded =>
        /\ fileLines[1] = Header
        /\ \A i \in 2..Len(fileLines) : ~IsHeaderLiteral(fileLines[i])
        /\ before.lines = << >> => Len(fileLines) = 2

\* C3: an aborted prompt ends the run as DialogCancelled, without a call of
\* append_to_csv and with the file as it was before the run.
C3_CancelLeavesFile ==
    abortedAt # "none" =>
        /\ pc = "exit"
        /\ outcome = "DialogCancelled"
        /\ ~appendCalled
        /\ fileExists = before.exists
        /\ fileLines = before.lines

\* C3 witness: the last prompt of a follow-up run was aborted, every answer
\* but the remarks given, on a file that holds entries.
C3_Witness ==
    /\ abortedAt = "remarks"
    /\ Len(ratings) = 6
    /\ Entries # {}

\* C4: two entries of the file dated the same calendar day carry the same
\* day_count.
C4_SameDaySameCount ==
    \A i \in Entries : \A j \in Entries :
        RowDate(fileLines[i]) = RowDate(fileLines[j])
            => RowDayCount(fileLines[i]) = RowDayCount(fileLines[j])

\* C5: on every calendar day at most one entry carries sleep fields and it
\* is the first entry of that day in file order; the entry a run writes
\* carries both sleep fields exactly when the run's is_first_entry_today.
C5_OneSleepEntryPerDay ==
    /\ \A i \in Entries : \A j \in Entries :
         ( /\ RowHasSleepHours(fileLines[i]) \/ RowHasSleepQuality(fileLines[i])
           /\ j # i
           /\ RowDate(fileLines[j]) = RowDate(fileLines[i]) )
         => ( /\ j > i
              /\ ~RowHasSleepHours(fileLines[j])
              /\ ~RowHasSleepQuality(fileLines[j]) )
    /\ Succeeded =>
         /\ RowHasSleepHours(LastRow) <=> is_first_entry_today
         /\ RowHasSleepQuality(LastRow) <=> is_first_entry_today

\* C6: when the scan found a workout logged today the prompt is not shown
\* and the entry says true, otherwise the prompt is shown and the entry has
\* the answer; once an entry of a day says workout true, every later entry
\* of that day says so.
C6_WorkoutSticks ==
    /\ Succeeded =>
         /\ csv_info.workout_logged_today
              => ~workoutPrompted /\ RowWorkout(LastRow)
         /\ ~csv_info.workout_logged_today
              => workoutPrompted /\ (RowWorkout(LastRow) <=> workout_today)
    /\ \A i \in Entries : \A j \in Entries :
         ( /\ i < j
           /\ RowDate(fileLines[i]) = RowDate(fileLines[j])
           /\ RowWorkout(fileLines[i]) )
         => RowWorkout(fileLines[j])

\* A history record the scan has to pass over.
Malformed(record) ==
    \/ Len(record) # Len(Header)
    \/ record[1].k = "str" /\ Trim(record[1].s) = TIMESTAMP_HEADER
    \/ ~ParseFromRfc3339(record[1]).ok

WellFormed(record) == ~Malformed(record)

\* The history with its malformed records removed.
Cleaned == << fileLines[1] >> \o SelectSeq(Tail(fileLines), WellFormed)

\* C7: the scan of a history returns Ok with the aggregates of the history
\* without its malformed records: the last date is that of the last
\* well-formed record, the first date the least of them, and the workout
\* flag says whether a well-formed record of today reads true.
C7_MalformedRowsIgnored ==
    pc = "today" =>
        LET good == SelectSeq(Tail(fileLines), WellFormed)
            dates == { RowDate(good[i]) : i \in 1..Len(good) }
        IN  /\ csv_info.ok
            /\ csv_info = ReadCsvInfo(TRUE, Cleaned, DateNaive(now))
            /\ csv_info.last_entry_date
                 = IF good = << >> THEN None
                   ELSE Some(RowDate(good[Len(good)]))
            /\ csv_info.first_entry_date
                 = IF good = << >> THEN None
                   ELSE Some(CHOOSE d \in dates : \A e \in dates : d <= e)
            /\ csv_info.workout_logged_today
                 <=> \E i \in 1..Len(good) :
                        /\ RowDate(good[i]) = DateNaive(now)
                        /\ EqIgnoreAsciiCase(Trim(good[i][11].s), "true")

\* C7 witness: a scanned history whose last record is malformed and which
\* holds a well-formed record too, so that the aggregates are not empty.
C7_Witness ==
    /\ pc = "today"
    /\ Len(fileLines) > 2
    /\ Malformed(fileLines[Len(fileLines)])
    /\ csv_info.last_entry_date.some
    /\ csv_info.workout_logged_today

\* C8: after a successful append, scanning the file gives the date of the
\* entry's timestamp as last_entry_date and, when that date is today, a
\* workout flag that is true exactly when the entry or an earlier entry of
\* today says true.
C8_RoundTrip ==
    Succeeded =>
        LET d == DateNaive(ParseFromRfc3339(entry.timestamp).utc)
            info == ReadCsvInfo(fileExists, fileLines, d)
            prior == \E i \in EntryIndices(before.lines) :
                        /\ RowDate(before.lines[i]) = d
                        /\ RowWorkout(before.lines[i])
        IN  /\ info.last_entry_date = Some(d)
            /\ info.workout_logged_today <=> (prior \/ entry.workout_today)
            /\ LastRow[WORKOUT_COLUMN_INDEX + 1] = BoolCell(entry.workout_today)

\* C9: every entry of the file that carries sleep_hours has it in [0, 12].
C9_SleepHoursInRange ==
    \A i \in Entries :
        RowHasSleepHours(fileLines[i])
            => fileLines[i][3].n >= 0 /\ fileLines[i][3].n <= 12

\* C10: a scan summary has both dates or neither, first <= last; day_count
\* is (today - (first_entry_date or today)) + 1 and at least 1 in every
\* entry; it is 1, with is_first_entry_today, when there is no file, and 2
\* when the file's only entry is dated yesterday.
C10_DayCount ==
    /\ csv_info.first_entry_date.some <=> csv_info.last_entry_date.some
    /\ csv_info.first_entry_date.some
         => csv_info.first_entry_date.v <= csv_info.last_entry_date.v
    /\ \A i \in Entries : RowDayCount(fileLines[i]) >= 1
    /\ Computed =>
         /\ day_count = (today - (IF csv_info.first_entry_date.some
                                  THEN csv_info.first_entry_date.v
                                  ELSE today)) + 1
         /\ ~before.exists => day_count = 1 /\ is_first_entry_today
         /\ ( /\ Cardinality(EntryIndices(before.lines)) = 1
              /\ \A i \in EntryIndices(before.lines) :
                    RowDate(before.lines[i]) = today - 1 )
            => day_count = 2 /\ is_first_entry_today

====
